---- MODULE Spec2Model ----
(***************************************************************************)
(* The callable-classification registry of torch/_dynamo/allowed_functions *)
(* (FunctionIdSet, the discovery pass _allowed_function_ids, is_allowed,   *)
(* torch_get_name, allow_in_graph, disallow_in_graph, forbid_in_graph).    *)
(*                                                                         *)
(* Qualified names are sequences of tokens in which "." is a token of its  *)
(* own, so that str.startswith is the prefix relation on sequences and     *)
(* f"{a}.{b}" is concatenation.  Object identities (id(obj)) are the keys  *)
(* of the table Obj.                                                       *)
(***************************************************************************)
EXTENDS Naturals, Sequences, FiniteSets, TLC

\* Deepest chain of nested _find_torch_objects calls the model follows.
MaxDepth == 5

---------------------------------------------------------------------------
(* Optional values: None and a present value.                              *)
None == <<>>
Some(v) == <<v>>
IsNone(o) == Len(o) = 0
Get(o) == o[1]

(* Strings.                                                                *)
Dot == <<".">>
StartsWith(s, p) == Len(p) <= Len(s) /\ SubSeq(s, 1, Len(p)) = p
Join(a, b) == a \o Dot \o b

(* dict operations on an identity -> name mapping.                         *)
EmptyDict == [x \in {} |-> <<>>]
Put(d, k, v) == [x \in DOMAIN d \cup {k} |-> IF x = k THEN v ELSE d[x]]

---------------------------------------------------------------------------
(* The objects of the run.  kind: "module" (types.ModuleType), "function", *)
(* "builtin" (a C function: no attribute may be set on it), "wrapper" (an  *)
(* instance of OpOverloadPacket / OpOverload / _OpNamespace), "methdesc"   *)
(* (types.MethodDescriptorType), "dtype", "const".  name is __name__;      *)
(* modname is inspect.getmodule(obj).__name__, None when getmodule finds   *)
(* no module (for a module, getmodule is the module itself).               *)
N(s) == <<s>>
TorchName == N("torch")
MathName == N("math")
AName == Join(TorchName, N("A"))
SubName == Join(AName, N("sub"))
DeepName == Join(SubName, N("deep"))
FxName == Join(Join(TorchName, N("fx")), N("h"))
DynamoUtilsName == Join(Join(TorchName, N("_dynamo")), N("external_utils"))
OpsName == Join(TorchName, N("_ops"))
UserName == N("__main__")

Rec(k, n, m) == [kind |-> k, name |-> n, modname |-> m]

Obj ==
  [ T    |-> Rec("module", TorchName, Some(TorchName)),
    Mth  |-> Rec("module", MathName, Some(MathName)),
    A    |-> Rec("module", AName, Some(AName)),
    S    |-> Rec("module", SubName, Some(SubName)),
    D    |-> Rec("module", DeepName, Some(DeepName)),
    f    |-> Rec("function", N("f"), Some(AName)),
    g    |-> Rec("function", N("g"), Some(SubName)),
    h    |-> Rec("function", N("h"), Some(FxName)),
    k    |-> Rec("builtin", N("set_autocast_enabled"), Some(TorchName)),
    dt   |-> Rec("dtype", N("float32"), None),
    c    |-> Rec("const", N("True"), None),
    u    |-> Rec("function", N("u"), Some(UserName)),
    w    |-> Rec("wrapper", N("aten.add"), Some(OpsName)),
    md   |-> Rec("methdesc", N("add"), None),
    e    |-> Rec("function", N("is_compiling"), Some(DynamoUtilsName)),
    sin  |-> Rec("builtin", N("sin"), Some(MathName)) ]

Ids == DOMAIN Obj
Modules == {x \in Ids : Obj[x].kind = "module"}

callable(x) == Obj[x].kind \in {"function", "builtin", "wrapper", "methdesc"}
is_safe_constant(x) == Obj[x].kind = "const"
IsWrapper(x) == Obj[x].kind = "wrapper"
IsMethodDescriptor(x) == Obj[x].kind = "methdesc"
IsDtypeOrStorage(x) == Obj[x].kind = "dtype"
CanSetAttr(x) == Obj[x].kind \in {"function", "module", "wrapper"}

---------------------------------------------------------------------------
(* The namespace graphs and policies a run starts from: list(module.       *)
(* __dict__.items()) of every module, and the prefixes of                  *)
(* config.allowed_functions_module_string_ignorelist.                      *)
B(n, x) == [name |-> N(n), obj |-> x]

NsOf(alias, cyclic) ==
  [ T   |-> (IF alias THEN <<B("f0", "f")>> ELSE <<>>)
            \o <<B("A", "A"), B("set_autocast_enabled", "k"),
                 B("float32", "dt"), B("True", "c")>>
            \o (IF alias THEN <<B("g", "g"), B("m", "md")>> ELSE <<>>),
    Mth |-> <<B("sin", "sin"), B("pi", "c")>>,
    A   |-> (IF cyclic THEN <<B("torch", "T"), B("me", "A"), B("math", "Mth")>>
                       ELSE <<>>)
            \o <<B("f", "f"), B("h", "h"),
                 B(IF alias THEN "s" ELSE "sub", "S")>>,
    S   |-> (IF cyclic THEN <<B("up", "A")>> ELSE <<>>)
            \o <<B("g", "g"), B("deep", "D")>>,
    D   |-> IF cyclic THEN <<B("root", "T"), B("g2", "g")>> ELSE <<B("g2", "g")>> ]

Graphs == {NsOf(a, cy) : a \in BOOLEAN, cy \in BOOLEAN}
IgnoreLists == {{}, {SubName}, {SubName \o Dot}}

(* dir(torch.Tensor) with getattr: one method descriptor and one attribute *)
(* that is none.                                                           *)
TensorDir == <<B("__doc__", "c"), B("add", "md")>>
TensorName == Join(TorchName, N("Tensor"))

(* The callables given to the override API, and one non-callable.          *)
Args == {"f", "k", "u", "w", "dt"}
Default == N("<default>")

VARIABLES
  ns,                \* module -> list(module.__dict__.items())
  ignorelist,        \* config.allowed_functions_module_string_ignorelist
  allowed,           \* _allowed_function_ids: function_ids, function_names
  disallowed,        \* _disallowed_function_ids: function_ids, function_names
  forbidden,         \* the objects whose _dynamo_forbidden attribute is True
  pc,                \* where the running call stands
  stack,             \* frames of _find_torch_objects: module, next item
  torch_object_ids,  \* the dict the discovery pass is filling
  last,              \* the last call that returned or raised, with its outcome
  prev,              \* the call before it, kept when on the same callable
  enumerated,        \* module -> its child bindings were enumerated never, once or again
  ret,               \* the last override call and what it returned, until a query
  answer,            \* the last query and its result, until an override call
  fset,              \* a FunctionIdSet several threads use
  initval,           \* what the lazy_initializer of fset returns
  heap,              \* the set objects the initializer runs have made, in order
  threads,           \* the threads that use fset
  tpc,               \* thread -> where it stands in a FunctionIdSet method
  tcall,             \* thread -> the method it runs, its idx and its locals
  tres               \* thread -> what its last method returned or raised

apivars == <<ret, answer>>
setvars == <<fset, initval, heap, threads, tpc, tcall, tres>>

vars == <<ns, ignorelist, allowed, disallowed, forbidden, pc, stack,
          torch_object_ids, last, prev, enumerated, apivars, setvars>>

---------------------------------------------------------------------------
(* class FunctionIdSet                                                     *)
FunctionIdSet == [function_ids |-> None, function_names |-> None]

\* __call__ on a set whose initializer returned the dict `value`
InstallDict(s, value) ==
  [s EXCEPT !.function_ids = Some(DOMAIN value), !.function_names = Some(value)]

\* __call__ on a set whose initializer returned the set `value`
InstallSet(s, value) == [s EXCEPT !.function_ids = Some(value)]

\* the three methods below are given a set that __call__ has initialized
contains(s, idx) == idx \in Get(s.function_ids)

\* add as a toggle: an identity already present is taken out
add_toggle(s, idx) ==
  [s EXCEPT !.function_ids =
     Some(IF idx \in Get(@) THEN Get(@) \ {idx} ELSE Get(@) \cup {idx})]

\* add whose identity is lost when the call itself materialized the set
add_lost_on_first(s, idx) ==
  IF pc = "resume" THEN s ELSE [s EXCEPT !.function_ids = Some(Get(@) \cup {idx})]

add(s, idx) == [s EXCEPT !.function_ids = Some(Get(@) \cup {idx})]

\* remove that leaves the identity in
remove_nothing(s, idx) == s

\* remove as a toggle: an absent identity is put in
remove_toggle(s, idx) ==
  [s EXCEPT !.function_ids =
     Some(IF idx \in Get(@) THEN Get(@) \ {idx} ELSE Get(@) \cup {idx})]

\* remove that also drops the recorded name
remove_with_name(s, idx) ==
  IF contains(s, idx)
    THEN [s EXCEPT !.function_ids = Some(Get(@) \ {idx}),
                   !.function_names =
                     IF IsNone(@) THEN @
                     ELSE Some([x \in DOMAIN Get(@) \ {idx} |-> Get(@)[x]])]
    ELSE s

remove(s, idx) ==
  IF contains(s, idx) THEN [s EXCEPT !.function_ids = Some(Get(@) \ {idx})] ELSE s

get_name(s, idx, default) ==
  IF idx \in DOMAIN Get(s.function_names) THEN Get(s.function_names)[idx] ELSE default

---------------------------------------------------------------------------
(* _disallowed_function_ids: the listed objects, and the dtypes and        *)
(* storages among torch.__dict__.values().                                 *)
RemoveList == {"c", "k"}

Values(items) == {items[i].obj : i \in DOMAIN items}

DisallowedInitializer(graph) ==
  RemoveList \cup {x \in Values(graph["T"]) : IsDtypeOrStorage(x)}

---------------------------------------------------------------------------
(* _allowed_function_ids                                                   *)
allowed_modules == {TorchName, MathName}
allowed_modules_dot == {m \o Dot : m \in allowed_modules}
disallowed_modules ==
  { Join(TorchName, N("optim")) \o Dot,
    Join(Join(Join(TorchName, N("nn")), N("modules")), N("rnn")) \o Dot,
    Join(TorchName, N("_dynamo")) \o Dot,
    Join(Join(TorchName, N("_C")), N("_dynamo")) \o Dot,
    Join(TorchName, N("_inductor")) \o Dot,
    Join(Join(TorchName, N("_C")), N("inductor")) \o Dot,
    Join(TorchName, N("fx")) \o Dot,
    Join(Join(TorchName, N("distributed")), N("fsdp")) \o Dot }

_is_allowed_module_prefix(x) ==
  IF IsNone(Obj[x].modname) THEN FALSE
  ELSE LET mod_name == Get(Obj[x].modname) IN
       IF \E m \in disallowed_modules : StartsWith(mod_name, m) THEN FALSE
       ELSE \/ mod_name \in allowed_modules
            \/ \E m \in allowed_modules_dot : StartsWith(mod_name, m)

\* the test that opens _find_torch_objects
Ignored(module, ignore) == \E p \in ignore : StartsWith(Obj[module].name, p)

\* a child binding that is a module _find_torch_objects records and enters
ChildEntered(x) ==
  /\ Obj[x].kind = "module"
  /\ StartsWith(Obj[x].name, TorchName \o Dot)
  /\ _is_allowed_module_prefix(x)

\* a child binding that is no module and is recorded
ChildRecorded(x) ==
  /\ Obj[x].kind # "module"
  /\ \/ _is_allowed_module_prefix(x)
     \/ IsNone(Obj[x].modname) /\ ~is_safe_constant(x)

\* the guard left out: every binding is taken as new
Unseen_always(d, x) == TRUE

\* the guard applied to the bindings that are no modules only
Unseen_unless_module(d, x) == Obj[x].kind = "module" \/ x \notin DOMAIN d

\* the guard of the loop body: the identity has no entry yet
Unseen(d, x) == x \notin DOMAIN d

\* the name given to a module at the head of _find_torch_objects
EnterName(d, module) == Put(d, module, Obj[module].name)

\* the name given to a child binding
ChildName(d, module, b) == Put(d, b.obj, Join(Obj[module].name, b.name))

\* for name in dir(torch.Tensor): the method descriptors, from item i on
RECURSIVE TensorMethods(_, _)
TensorMethods(d, i) ==
  IF i > Len(TensorDir) THEN d
  ELSE TensorMethods(
         IF IsMethodDescriptor(TensorDir[i].obj)
           THEN Put(d, TensorDir[i].obj, Join(TensorName, TensorDir[i].name))
           ELSE d,
         i + 1)

\* the subtraction left out
Subtracted_nothing(d, dis) == d

\* for idx in _disallowed_function_ids(): del torch_object_ids[idx]
Subtracted(d, dis) == [x \in DOMAIN d \ dis |-> d[x]]

\* for extra in (is_fx_tracing, is_compiling)
Extras == {"e"}
RECURSIVE WithExtras(_, _)
WithExtras(d, todo) ==
  IF todo = {} THEN d
  ELSE LET x == CHOOSE y \in todo : TRUE IN
       WithExtras(Put(d, x, Join(Get(Obj[x].modname), Obj[x].name)), todo \ {x})

---------------------------------------------------------------------------
(* The query API, on the two sets once initialized.                        *)
\* is_allowed without the isinstance test
is_allowed_no_wrapper(al, x) == contains(al, x)

is_allowed_in(al, x) == contains(al, x) \/ IsWrapper(x)

is_allowed(x) == is_allowed_in(allowed, x)

torch_get_name(x, default) == get_name(allowed, x, default)

Materialized == ~IsNone(allowed.function_ids)

---------------------------------------------------------------------------
(* The override API on one argument that is no list or tuple.  A call is   *)
(* [op, strict, fn]; strict is throw_if_not_allowed and is FALSE for the   *)
(* other operations.  Each handler maps the registry                       *)
(* [allowed, disallowed, forbidden] to the registry it leaves, with what   *)
(* it raised ("none" when it returned fn).                                 *)
Call(op, strict, fn) == [op |-> op, strict |-> strict, fn |-> fn]

Calls ==
  {Call("allow", FALSE, x) : x \in Args}
    \cup {Call("disallow", st, x) : st \in BOOLEAN, x \in Args}
    \cup {Call("forbid", FALSE, x) : x \in Args \ {"w"}}

Queries == {Call("is_allowed", FALSE, "f")}

Registry == [allowed |-> allowed, disallowed |-> disallowed, forbidden |-> forbidden]

Outcome(reg, raised) == [reg |-> reg, raised |-> raised]

\* allow_in_graph without _disallowed_function_ids.remove
allow_no_remove(reg, fn) ==
  IF ~callable(fn) THEN Outcome(reg, "AssertionError")
  ELSE Outcome([reg EXCEPT !.allowed = add(@, fn)], "none")

allow_in_graph(reg, fn) ==
  IF ~callable(fn) THEN Outcome(reg, "AssertionError")
  ELSE Outcome([reg EXCEPT !.allowed = add(@, fn),
                           !.disallowed = remove(@, fn)], "none")

\* the strict test made after the sets were changed
inner_late_check(throw_if_not_allowed, reg, fn) ==
  IF ~callable(fn) THEN Outcome(reg, "AssertionError")
  ELSE LET changed == [reg EXCEPT !.allowed = remove(@, fn),
                                  !.disallowed = add(@, fn)] IN
       IF throw_if_not_allowed /\ ~is_allowed_in(reg.allowed, fn)
         THEN Outcome(changed, "IncorrectUsage")
         ELSE Outcome(changed, "none")

inner(throw_if_not_allowed, reg, fn) ==
  IF ~callable(fn) THEN Outcome(reg, "AssertionError")
  ELSE IF throw_if_not_allowed /\ ~is_allowed_in(reg.allowed, fn)
    THEN Outcome(reg, "IncorrectUsage")
  ELSE Outcome([reg EXCEPT !.allowed = remove(@, fn),
                           !.disallowed = add(@, fn)], "none")

\* forbid that also takes the callable out of the Allowed set
forbid_disallows(reg, fn) ==
  IF ~callable(fn) THEN Outcome(reg, "AssertionError")
  ELSE IF ~CanSetAttr(fn) THEN Outcome(reg, "AttributeError")
  ELSE Outcome([reg EXCEPT !.forbidden = @ \cup {fn},
                           !.allowed = IF IsNone(@.function_ids) THEN @
                                       ELSE remove(@, fn)], "none")

forbid_in_graph(reg, fn) ==
  IF ~callable(fn) THEN Outcome(reg, "AssertionError")
  ELSE IF ~CanSetAttr(fn) THEN Outcome(reg, "AttributeError")
  ELSE Outcome([reg EXCEPT !.forbidden = @ \cup {fn}], "none")

Handle(c, reg) ==
  CASE c.op = "allow" -> allow_in_graph(reg, c.fn)
    [] c.op = "disallow" -> inner(c.strict, reg, c.fn)
    [] c.op = "forbid" -> forbid_in_graph(reg, c.fn)
    [] OTHER -> Outcome(reg, "none")

\* the first access of the call reaches _allowed_function_ids.__call__
Accesses(c) == c.op = "is_allowed" \/ (c.op \in {"allow", "disallow"} /\ callable(c.fn))

---------------------------------------------------------------------------
(* make_function_id_set(lazy_initializer) on its own: one FunctionIdSet    *)
(* and the threads that call its methods.  The initializer returns a dict  *)
(* (as _builtin_function_ids does) or a set (as _disallowed_function_ids   *)
(* does); isdict is isinstance(value, dict).                               *)
Threads == {"t1", "t2"}

BuiltinValue ==
  [isdict |-> TRUE,
   names |-> [len |-> Join(N("builtins"), N("len")),
              reduce |-> Join(N("functools"), N("reduce"))]]

DisallowedValue ==
  [isdict |-> FALSE, names |-> [x \in DisallowedInitializer(NsOf(FALSE, FALSE)) |-> <<>>]]

InitValues == {BuiltinValue, DisallowedValue}

\* the identities of the dict or the set the initializer returns
KeysOf(value) == DOMAIN value.names

SetIdx == {"len", "k"}

Method(name, idx) == [name |-> name, idx |-> idx, ref |-> 0]

NoMethod == Method("none", "len")

Methods ==
  {Method("__call__", "len")}
    \cup {Method(nm, i) : nm \in {"__contains__", "get_name", "add", "remove"}, i \in SetIdx}

Outcome0 == [raised |-> "none", found |-> FALSE, name |-> <<>>]

---------------------------------------------------------------------------
RegistryInit ==
  /\ ns \in Graphs
  /\ ignorelist \in IgnoreLists
  /\ allowed = FunctionIdSet
  /\ disallowed = FunctionIdSet
  /\ forbidden = {}
  /\ pc = "idle"
  /\ stack = <<>>
  /\ torch_object_ids = EmptyDict
  /\ last = None
  /\ prev = None
  /\ enumerated = [m \in Modules |-> "never"]
  /\ ret = None
  /\ answer = None

SetIdle ==
  /\ fset = FunctionIdSet
  /\ heap = <<>>
  /\ tpc = [t \in Threads |-> "idle"]
  /\ tcall = [t \in Threads |-> NoMethod]
  /\ tres = [t \in Threads |-> Outcome0]

Init ==
  /\ RegistryInit
  /\ SetIdle
  /\ initval = BuiltinValue
  /\ threads = {"t1"}

world == <<ns, ignorelist>>
history == <<last, prev>>
registry == <<allowed, disallowed, forbidden>>
regvars == <<world, apivars, enumerated, registry, pc, stack, torch_object_ids, history>>

Top == stack[Len(stack)]
Pop == SubSeq(stack, 1, Len(stack) - 1)
Frame(module, i) == [module |-> module, i |-> i]
Advance == [stack EXCEPT ![Len(stack)].i = @ + 1]

\* The first access of a call to _allowed_function_ids: __call__ finds
\* function_ids None and runs the initializer, which starts at
\* _find_torch_objects(torch).  The call goes on when __call__ returns.
Begin ==
  /\ pc = "idle"
  /\ ~Materialized
  /\ pc' = "find_torch"
  /\ UNCHANGED <<world, apivars, setvars, enumerated, registry, stack, torch_object_ids, history>>

\* _find_torch_objects(torch); _find_torch_objects(math)
CallRoot ==
  /\ pc \in {"find_torch", "find_math"}
  /\ stack = <<>>
  /\ stack' = <<Frame(IF pc = "find_torch" THEN "T" ELSE "Mth", 0)>>
  /\ pc' = IF pc = "find_torch" THEN "find_math" ELSE "tensor"
  /\ UNCHANGED <<world, apivars, setvars, enumerated, registry, torch_object_ids, history>>

\* the head of _find_torch_objects: the ignore-list test, the module's name
Enter ==
  /\ stack # <<>>
  /\ Top.i = 0
  /\ IF Ignored(Top.module, ignorelist)
       THEN /\ stack' = Pop
            /\ UNCHANGED torch_object_ids
       ELSE /\ torch_object_ids' = EnterName(torch_object_ids, Top.module)
            /\ stack' = Advance
  /\ enumerated' = IF Ignored(Top.module, ignorelist) THEN enumerated
                    ELSE [enumerated EXCEPT ![Top.module] =
                            IF @ = "never" THEN "once" ELSE "again"]
  /\ UNCHANGED <<world, apivars, setvars, registry, pc, history>>

\* one turn of the loop over list(module.__dict__.items())
Child ==
  /\ stack # <<>>
  /\ Top.i \in 1..Len(ns[Top.module])
  /\ LET b == ns[Top.module][Top.i] IN
       IF Unseen(torch_object_ids, b.obj) /\ ChildEntered(b.obj)
         THEN /\ Len(stack) < MaxDepth
              /\ torch_object_ids' = ChildName(torch_object_ids, Top.module, b)
              /\ stack' = Append(Advance, Frame(b.obj, 0))
       ELSE IF Unseen(torch_object_ids, b.obj) /\ ChildRecorded(b.obj)
         THEN /\ torch_object_ids' = ChildName(torch_object_ids, Top.module, b)
              /\ stack' = Advance
       ELSE /\ stack' = Advance
            /\ UNCHANGED torch_object_ids
  /\ UNCHANGED <<world, apivars, setvars, enumerated, registry, pc, history>>

\* the loop is over: _find_torch_objects returns
Return ==
  /\ stack # <<>>
  /\ Top.i > Len(ns[Top.module])
  /\ stack' = Pop
  /\ UNCHANGED <<world, apivars, setvars, enumerated, registry, pc, torch_object_ids, history>>

\* for name in dir(torch.Tensor)
Tensor ==
  /\ pc = "tensor"
  /\ stack = <<>>
  /\ torch_object_ids' = TensorMethods(torch_object_ids, 1)
  /\ pc' = "subtract"
  /\ UNCHANGED <<world, apivars, setvars, enumerated, registry, stack, history>>

\* for idx in _disallowed_function_ids(): the first access of that set
\* runs its initializer
Subtract ==
  /\ pc = "subtract"
  /\ disallowed' = IF IsNone(disallowed.function_ids)
                     THEN InstallSet(disallowed, DisallowedInitializer(ns))
                     ELSE disallowed
  /\ torch_object_ids' = Subtracted(torch_object_ids, Get(disallowed'.function_ids))
  /\ pc' = "extras"
  /\ UNCHANGED <<world, apivars, setvars, enumerated, allowed, forbidden, stack, history>>

MergeExtras ==
  /\ pc = "extras"
  /\ torch_object_ids' = WithExtras(torch_object_ids, Extras)
  /\ pc' = "install"
  /\ UNCHANGED <<world, apivars, setvars, enumerated, registry, stack, history>>

\* return torch_object_ids; __call__ stores the keys and the dict
Install ==
  /\ pc = "install"
  /\ allowed' = InstallDict(allowed, torch_object_ids)
  /\ torch_object_ids' = EmptyDict
  /\ pc' = "resume"
  /\ UNCHANGED <<world, apivars, setvars, enumerated, disallowed, forbidden, stack, history>>

\* A call runs to its end: on initialized sets, or going on after its first
\* access ran the discovery; or a call that touches no set.
Complete(c) ==
  /\ \/ pc = "idle" /\ (Materialized \/ ~Accesses(c))
     \/ pc = "resume" /\ Accesses(c)
  /\ LET out == Handle(c, Registry) IN
       /\ allowed' = out.reg.allowed
       /\ disallowed' = out.reg.disallowed
       /\ forbidden' = out.reg.forbidden
       /\ IF c \in Queries
            THEN UNCHANGED history
            ELSE /\ last' = Some([call |-> c, raised |-> out.raised])
                 /\ prev' = IF ~IsNone(last) /\ Get(last).call.fn = c.fn
                              THEN Some(Get(last).call) ELSE None
  /\ pc' = "idle"
  /\ UNCHANGED <<world, apivars, setvars, enumerated, stack, torch_object_ids>>

Discover == CallRoot \/ Enter \/ Child \/ Return \/ Tensor \/ Subtract
              \/ MergeExtras \/ Install

Next ==
  \/ Begin
  \/ \E c \in Calls \cup Queries : Complete(c)
  \/ CallRoot
  \/ Enter
  \/ Child
  \/ Return
  \/ Tensor
  \/ Subtract
  \/ MergeExtras
  \/ Install

Spec == Init /\ [][Next]_vars

\* The discovery pass is straight-line code: once begun it keeps running.
FairSpec == Spec /\ WF_vars(Discover)

---------------------------------------------------------------------------
(* The override API on arguments of every shape it accepts: one object, a  *)
(* list or a tuple.  isinstance(fn, (list, tuple)) sends both sequence     *)
(* shapes through a list comprehension over the public single-object       *)
(* function.                                                               *)
MaxSeqLen == 2

ApiArgs == {"f", "u", "dt"}
QueryArgs == {"f", "u", "w"}

Single(x) == [shape |-> "obj", items |-> <<x>>]

SeqsUpTo(n) == UNION {[1..m -> ApiArgs] : m \in 0..n}

ArgValues ==
  {Single(x) : x \in ApiArgs}
    \cup {[shape |-> sh, items |-> q] : sh \in {"list", "tuple"}, q \in SeqsUpTo(MaxSeqLen)}

ApiCall(op, strict, arg) == [op |-> op, strict |-> strict, arg |-> arg]

ApiCalls ==
  {ApiCall("allow", FALSE, v) : v \in ArgValues}
    \cup {ApiCall("disallow", st, v) : st \in BOOLEAN, v \in ArgValues}
    \cup {ApiCall("forbid", FALSE, v) : v \in ArgValues}

Result(reg, raised, value) == [reg |-> reg, raised |-> raised, value |-> value]

\* [allow_in_graph(x) for x in fn], [disallow_in_graph(x) for x in fn] and
\* [forbid_in_graph(x) for x in fn]: the elements in order, each through
\* the public function, an exception ending the comprehension
RECURSIVE Comprehension(_, _, _, _)
Comprehension(op, reg, items, i) ==
  IF i > Len(items) THEN Result(reg, "none", Some([shape |-> "list", items |-> items]))
  ELSE LET out == Handle(Call(op, op = "disallow", items[i]), reg) IN
       IF out.raised # "none" THEN Result(out.reg, out.raised, None)
       ELSE Comprehension(op, out.reg, items, i + 1)

\* a sequence form that puts the registry back when an element raises
ApiHandle_atomic(c, reg) ==
  IF c.arg.shape \in {"list", "tuple"}
    THEN LET out == Comprehension(c.op, reg, c.arg.items, 1) IN
         IF out.raised # "none" THEN Result(reg, out.raised, None) ELSE out
    ELSE LET out == Handle(Call(c.op, c.strict, c.arg.items[1]), reg) IN
         Result(out.reg, out.raised,
                IF out.raised = "none" THEN Some(c.arg) ELSE None)

ApiHandle(c, reg) ==
  IF c.arg.shape \in {"list", "tuple"}
    THEN Comprehension(c.op, reg, c.arg.items, 1)
    ELSE LET out == Handle(Call(c.op, c.strict, c.arg.items[1]), reg) IN
         Result(out.reg, out.raised,
                IF out.raised = "none" THEN Some(c.arg) ELSE None)

\* the call reaches _allowed_function_ids.__call__ before anything else
\* can end it
ApiAccesses(c) ==
  /\ c.op \in {"allow", "disallow"}
  /\ Len(c.arg.items) > 0
  /\ callable(c.arg.items[1])

ApiInit ==
  /\ Init
  /\ ns = NsOf(TRUE, TRUE)
  /\ ignorelist = {}

Apply(c) ==
  /\ \/ pc = "idle" /\ (Materialized \/ ~ApiAccesses(c))
     \/ pc = "resume" /\ ApiAccesses(c)
  /\ \E out \in {ApiHandle(c, Registry)} :
       /\ allowed' = out.reg.allowed
       /\ disallowed' = out.reg.disallowed
       /\ forbidden' = out.reg.forbidden
       /\ ret' = Some([call |-> c, raised |-> out.raised, value |-> out.value])
  /\ answer' = None
  /\ pc' = "idle"
  /\ UNCHANGED <<world, setvars, enumerated, history, stack, torch_object_ids>>

Query(x) ==
  /\ pc = "resume" \/ (pc = "idle" /\ Materialized)
  /\ answer' = Some([fn |-> x, result |-> is_allowed(x)])
  /\ ret' = None
  /\ pc' = "idle"
  /\ UNCHANGED <<world, setvars, enumerated, history, stack, torch_object_ids,
                 registry>>

ApiNext ==
  \/ Begin
  \/ \E c \in ApiCalls : Apply(c)
  \/ \E x \in QueryArgs : Query(x)
  \/ CallRoot
  \/ Enter
  \/ Child
  \/ Return
  \/ Tensor
  \/ Subtract
  \/ MergeExtras
  \/ Install

ApiSpec == ApiInit /\ [][ApiNext]_vars

---------------------------------------------------------------------------
(* Properties.                                                             *)
AllowedIds == Get(allowed.function_ids)
DisallowedIds == Get(disallowed.function_ids)

Returned(c) == Some([call |-> c, raised |-> "none"])
Raised(c, err) == Some([call |-> c, raised |-> err])

\* the registry that one returned or raised call has just left
AfterCall(c) == pc = "idle" /\ ~IsNone(last) /\ Get(last).call = c

\* C1: in every state reached from discovery by allow, disallow (strict or
\* not) and forbid calls, no identity is in both the Allowed and the
\* Disallowed set; right after discovery no identity of the
\* disallowed-by-default set is in the Allowed set.
C1_Disjoint ==
  /\ Materialized => AllowedIds \cap DisallowedIds = {}
  /\ pc = "resume" => AllowedIds \cap DisallowedInitializer(ns) = {}

\* an identity disallowed by default was allowed, a discovered one disallowed
C1_Witness ==
  /\ Materialized
  /\ "k" \in DisallowedInitializer(ns)
  /\ "k" \in AllowedIds
  /\ "f" \in DisallowedIds
  /\ "f" \in DOMAIN Get(allowed.function_names)

\* C2 as claimed: for every callable f, the dispatch wrappers included,
\* allow(f) followed by disallow(f, strict=false) leaves is_allowed(f) false.
C2_Original ==
  \A x \in Args :
    (callable(x) /\ AfterCall(Call("disallow", FALSE, x))
       /\ prev = Some(Call("allow", FALSE, x)))
      => ~is_allowed(x)

\* C2 amended: allow(f) followed by disallow(f, strict=false) leaves f out
\* of the Allowed set and in the Disallowed set; is_allowed(f) is then false
\* for every callable that is no dispatch wrapper, and true for a wrapper.
C2_Amended ==
  \A x \in Args :
    (callable(x) /\ AfterCall(Call("disallow", FALSE, x))
       /\ prev = Some(Call("allow", FALSE, x)))
      => /\ x \notin AllowedIds
         /\ x \in DisallowedIds
         /\ is_allowed(x) <=> IsWrapper(x)

\* allow(w) then disallow(w, strict=false) on a dispatch wrapper, which is
\* then in the Disallowed set and still is_allowed
C2_Witness ==
  /\ AfterCall(Call("disallow", FALSE, "w"))
  /\ prev = Some(Call("allow", FALSE, "w"))
  /\ "w" \in DisallowedIds
  /\ is_allowed("w")

\* C3: disallow(f, strict=true) on one callable f for which is_allowed(f) is
\* false raises the usage error and leaves both sets as they were.
C3_StrictRaises ==
  [][\A x \in Args :
       (callable(x) /\ Materialized /\ ~is_allowed(x)
          /\ Complete(Call("disallow", TRUE, x)))
         => /\ last' = Raised(Call("disallow", TRUE, x), "IncorrectUsage")
            /\ allowed' = allowed
            /\ disallowed' = disallowed]_vars

\* a strict disallow of a callable never allowed has raised
C3_Witness ==
  /\ last = Raised(Call("disallow", TRUE, "u"), "IncorrectUsage")
  /\ Materialized
  /\ "u" \notin AllowedIds \cup DisallowedIds

\* C4: forbid(f) only sets the Forbidden tag on f: the Allowed and the
\* Disallowed set stay as they are, and is_allowed(g) keeps its value for
\* every object g, f included.
C4_ForbidFrame ==
  [][\A x \in Args \ {"w"} :
       Complete(Call("forbid", FALSE, x))
         => /\ allowed' = allowed
            /\ disallowed' = disallowed
            /\ forbidden' \in {forbidden, forbidden \cup {x}}
            /\ Materialized =>
                 \A y \in Ids : is_allowed_in(allowed', y) <=> is_allowed(y)]_vars

\* an allowed callable was forbidden and is still allowed
C4_Witness ==
  /\ last = Returned(Call("forbid", FALSE, "f"))
  /\ "f" \in forbidden
  /\ Materialized
  /\ is_allowed("f")

C6_FirstNameWins ==
  [][\A x \in DOMAIN torch_object_ids \cap DOMAIN torch_object_ids' :
       torch_object_ids'[x] = torch_object_ids[x]]_vars

\* the module or the defining module of x is named under an ignored prefix
UnderIgnored(x) ==
  /\ ~IsNone(Obj[x].modname)
  /\ \E p \in ignorelist : StartsWith(Get(Obj[x].modname), p)

\* C7: after discovery nothing that lives under a policy-ignored prefix is
\* in the Allowed set, whatever path reaches it: not the ignored namespace
\* itself, and not an object defined in it that a namespace outside it
\* binds too.
C7_IgnoredExcluded ==
  pc = "resume" => \A x \in Ids : UnderIgnored(x) => x \notin AllowedIds

\* C8: the discovery pass ends, with its result installed, on every
\* namespace graph, those with a binding back to an ancestor or to the root
\* included.
C8_Terminates == (pc = "find_torch") ~> Materialized

\* discovery has ended on a graph with bindings back to the root and to
\* the namespace itself
C8_Witness ==
  /\ pc = "resume"
  /\ "T" \in Values(ns["A"])
  /\ "A" \in Values(ns["A"])
  /\ "A" \in Values(ns["S"])
  /\ {"T", "A", "S"} \subseteq AllowedIds

\* C9: allow(f) is idempotent: a second allow(f) right after the first
\* leaves the Allowed set, the Disallowed set and every is_allowed result
\* as the first left them.
C9_AllowIdempotent ==
  [][\A x \in Args :
       (callable(x) /\ AfterCall(Call("allow", FALSE, x))
          /\ Complete(Call("allow", FALSE, x)))
         => /\ allowed' = allowed
            /\ disallowed' = disallowed
            /\ \A y \in Ids : is_allowed_in(allowed', y) <=> is_allowed(y)]_vars

\* allow was called twice in a row on a callable discovery had not allowed
C9_Witness ==
  /\ AfterCall(Call("allow", FALSE, "k"))
  /\ prev = Some(Call("allow", FALSE, "k"))
  /\ "k" \in AllowedIds
  /\ "k" \notin DOMAIN Get(allowed.function_names)

\* C10: a second disallow(f) with the same strict flag right after the
\* first leaves the Allowed and the Disallowed set as the first left them,
\* whether or not the second call raises.
C10_DisallowIdempotent ==
  [][\A x \in Args : \A st \in BOOLEAN :
       (callable(x) /\ AfterCall(Call("disallow", st, x))
          /\ Complete(Call("disallow", st, x)))
         => /\ allowed' = allowed
            /\ disallowed' = disallowed]_vars

\* a strict disallow returned and the same call, repeated, raised
C10_Witness ==
  /\ last = Raised(Call("disallow", TRUE, "f"), "IncorrectUsage")
  /\ prev = Some(Call("disallow", TRUE, "f"))
  /\ pc = "idle"
  /\ "f" \in DisallowedIds
  /\ "f" \in DOMAIN Get(allowed.function_names)

---------------------------------------------------------------------------
(* The methods of one FunctionIdSet, a statement at a time, run by one or  *)
(* by two threads without a lock.  A set object is a place in heap;        *)
(* function_ids holds a reference to one.                                  *)
SetInit ==
  /\ RegistryInit
  /\ ns = NsOf(FALSE, FALSE)
  /\ ignorelist = {}
  /\ SetIdle
  /\ initval \in InitValues
  /\ threads \in {{"t1"}, Threads}

inits == Len(heap)
Current == heap[Get(fset.function_ids)]

Goto(t, where) == tpc' = [tpc EXCEPT ![t] = where]
Finish(t, out) == tpc' = [tpc EXCEPT ![t] = "idle"] /\ tres' = [tres EXCEPT ![t] = out]

\* `if self.function_ids is None`
NeedsInit_names(s) == IsNone(s.function_names)

NeedsInit(s) == IsNone(s.function_ids)

\* `self.function_names = value`
InstallNames_forgotten(s, value) == s

InstallNames(s, value) == [s EXCEPT !.function_names = Some(value.names)]

\* a thread calls a method
Start(t, m) ==
  /\ tpc[t] = "idle"
  /\ tcall' = [tcall EXCEPT ![t] = m]
  /\ tres' = [tres EXCEPT ![t] = Outcome0]
  /\ Goto(t, "check")
  /\ UNCHANGED <<regvars, fset, initval, heap, threads>>

\* __call__, line 55
Check(t) ==
  /\ tpc[t] = "check"
  /\ Goto(t, IF NeedsInit(fset) THEN "init" ELSE "return")
  /\ UNCHANGED <<regvars, fset, initval, heap, threads, tcall, tres>>

\* value = lazy_initializer(): a new dict or a new set
RunInit(t) ==
  /\ tpc[t] = "init"
  /\ heap' = Append(heap, KeysOf(initval))
  /\ tcall' = [tcall EXCEPT ![t].ref = Len(heap) + 1]
  /\ Goto(t, "set_ids")
  /\ UNCHANGED <<regvars, fset, initval, threads, tres>>

\* an assignment made only while function_ids is still None
SetIds_if_unset(t) ==
  /\ tpc[t] = "set_ids"
  /\ fset' = IF IsNone(fset.function_ids)
               THEN [fset EXCEPT !.function_ids = Some(tcall[t].ref)] ELSE fset
  /\ Goto(t, IF initval.isdict THEN "set_names" ELSE "return")
  /\ UNCHANGED <<regvars, initval, heap, threads, tcall, tres>>

\* self.function_ids = set(value.keys()), or self.function_ids = value
SetIds(t) ==
  /\ tpc[t] = "set_ids"
  /\ fset' = [fset EXCEPT !.function_ids = Some(tcall[t].ref)]
  /\ Goto(t, IF initval.isdict THEN "set_names" ELSE "return")
  /\ UNCHANGED <<regvars, initval, heap, threads, tcall, tres>>

\* self.function_names = value
SetNames(t) ==
  /\ tpc[t] = "set_names"
  /\ fset' = InstallNames(fset, initval)
  /\ Goto(t, "return")
  /\ UNCHANGED <<regvars, initval, heap, threads, tcall, tres>>

\* return self.function_ids
ReturnIds(t) ==
  /\ tpc[t] = "return"
  /\ tcall' = [tcall EXCEPT ![t].ref = Get(fset.function_ids)]
  /\ Goto(t, "body")
  /\ UNCHANGED <<regvars, fset, initval, heap, threads, tres>>

\* what the method does with what self() returned
Body(t) ==
  /\ tpc[t] = "body"
  /\ LET m == tcall[t] IN
       CASE m.name = "__call__" ->
              /\ Finish(t, Outcome0)
              /\ UNCHANGED heap
         [] m.name = "__contains__" ->
              /\ Finish(t, [Outcome0 EXCEPT !.found = m.idx \in heap[m.ref]])
              /\ UNCHANGED heap
         [] m.name = "get_name" ->
              /\ Finish(t, IF IsNone(fset.function_names)
                             THEN [Outcome0 EXCEPT !.raised = "AttributeError"]
                             ELSE [Outcome0 EXCEPT !.name = get_name(fset, m.idx, Default)])
              /\ UNCHANGED heap
         [] m.name = "add" ->
              /\ heap' = [heap EXCEPT ![Get(fset.function_ids)] = @ \cup {m.idx}]
              /\ Finish(t, Outcome0)
         [] m.name = "remove" ->
              /\ IF m.idx \in heap[m.ref]
                   THEN Goto(t, "removing") /\ UNCHANGED tres
                   ELSE Finish(t, Outcome0)
              /\ UNCHANGED heap
  /\ UNCHANGED <<regvars, fset, initval, threads, tcall>>

\* self.function_ids.remove(idx), after the test found idx
Removing(t) ==
  /\ tpc[t] = "removing"
  /\ IF tcall[t].idx \in Current
       THEN /\ heap' = [heap EXCEPT ![Get(fset.function_ids)] = @ \ {tcall[t].idx}]
            /\ Finish(t, Outcome0)
       ELSE /\ Finish(t, [Outcome0 EXCEPT !.raised = "KeyError"])
            /\ UNCHANGED heap
  /\ UNCHANGED <<regvars, fset, initval, threads, tcall>>

SetNext ==
  \E t \in threads :
    \/ \E m \in Methods : Start(t, m)
    \/ Check(t)
    \/ RunInit(t)
    \/ SetIds(t)
    \/ SetNames(t)
    \/ ReturnIds(t)
    \/ Body(t)
    \/ Removing(t)

SetSpec == SetInit /\ [][SetNext]_vars

---------------------------------------------------------------------------
\* the last call of the override API, its argument and what it returned
Ret == Get(ret)
Items == Ret.call.arg.items

\* C11: allow_in_graph, disallow_in_graph and forbid_in_graph return their
\* argument in the shape it was given: one callable gives that callable, a
\* list gives a list and a tuple gives a tuple, of the same callables in
\* the same order.
C11_SameShape ==
  (~IsNone(ret) /\ Ret.raised = "none") => Ret.value = Some(Ret.call.arg)

\* C12: a call raises only when it is given a non-callable or when it is a
\* disallow with strict=true; a disallow with strict=false on callables,
\* one or a sequence of them, completes.
C12_OnlyTwoRaise ==
  (~IsNone(ret) /\ Ret.raised # "none") =>
     \/ \E i \in DOMAIN Items : ~callable(Items[i])
     \/ Ret.call.op = "disallow" /\ Ret.call.strict

\* C13: is_allowed(obj) is true exactly when id(obj) is in the Allowed set
\* or obj is an instance of a dispatch-wrapper type.
C13_IsAllowedIff ==
  ~IsNone(answer) =>
     (Get(answer).result <=> (Get(answer).fn \in AllowedIds \/ IsWrapper(Get(answer).fn)))

\* is_allowed said yes of a user function that an override had put in the
\* Allowed set, after another override took a discovered function out
C13_Witness ==
  /\ answer = Some([fn |-> "u", result |-> TRUE])
  /\ "u" \in AllowedIds
  /\ "f" \notin AllowedIds

---------------------------------------------------------------------------
AllowedIdsAfter == Get(allowed'.function_ids)

\* C15: an override that is the first operation on the registry is kept.
\* The call that made discovery run finds the discovery result, changes the
\* membership of its own callable only, and later no callable enters or
\* leaves the Allowed set but by an allow or a disallow of that callable.
C15_FirstOverrideKept ==
  [][/\ \A x \in Args :
          (pc = "resume" /\ callable(x) /\ Complete(Call("allow", FALSE, x)))
            => /\ is_allowed_in(allowed', x)
               /\ \A y \in Ids \ {x} : y \in AllowedIdsAfter <=> y \in AllowedIds
               /\ allowed'.function_names = allowed.function_names
     /\ \A x \in Args :
          (pc = "resume" /\ callable(x) /\ Complete(Call("disallow", FALSE, x)))
            => /\ ~IsWrapper(x) => ~is_allowed_in(allowed', x)
               /\ \A y \in Ids \ {x} : y \in AllowedIdsAfter <=> y \in AllowedIds
               /\ allowed'.function_names = allowed.function_names
     /\ \A x \in Ids :
          (Materialized /\ x \in AllowedIds /\ x \notin AllowedIdsAfter)
            => \E st \in BOOLEAN : x \in Args /\ Complete(Call("disallow", st, x))
     /\ \A x \in Ids :
          (Materialized /\ x \notin AllowedIds /\ x \in AllowedIdsAfter)
            => x \in Args /\ Complete(Call("allow", FALSE, x))]_vars

\* allow(u) has returned on a registry that holds what discovery found and
\* u, and nothing else has changed
C15_Witness ==
  /\ last = Returned(Call("allow", FALSE, "u"))
  /\ prev = None
  /\ pc = "idle"
  /\ forbidden = {}
  /\ AllowedIds = DOMAIN Get(allowed.function_names) \cup {"u"}
  /\ "u" \notin DOMAIN Get(allowed.function_names)
  /\ "g" \in AllowedIds
  /\ is_allowed("u")

\* C16: for a callable that discovery allowed and that is no dispatch
\* wrapper, a non-strict disallow makes is_allowed false, and an allow
\* right after it makes is_allowed true again, the callable in the Allowed
\* set and not in the Disallowed set.
C16_DisallowThenAllow ==
  \A x \in Args :
    (Materialized /\ callable(x) /\ ~IsWrapper(x)
       /\ x \in DOMAIN Get(allowed.function_names))
      => /\ AfterCall(Call("disallow", FALSE, x))
              => last = Returned(Call("disallow", FALSE, x)) /\ ~is_allowed(x)
         /\ (AfterCall(Call("allow", FALSE, x))
               /\ prev = Some(Call("disallow", FALSE, x)))
              => is_allowed(x) /\ x \in AllowedIds /\ x \notin DisallowedIds

\* f, which discovery allowed, was disallowed without the strict test and
\* then allowed
C16_Witness ==
  /\ AfterCall(Call("allow", FALSE, "f"))
  /\ prev = Some(Call("disallow", FALSE, "f"))
  /\ "f" \in DOMAIN Get(allowed.function_names)
  /\ is_allowed("f")
  /\ "f" \notin DisallowedIds

\* C17: in one discovery pass no module has its child bindings enumerated
\* more than once, whatever bindings lead to it.
C17_EnumeratedOnce == \A m \in Modules : enumerated[m] # "again"

\* discovery is over; torch.A was reached by three bindings and math by a
\* binding and as the second root, and each was enumerated once
C17_Witness ==
  /\ Materialized
  /\ ns = NsOf(TRUE, TRUE)
  /\ ignorelist = {}
  /\ enumerated["A"] = "once"
  /\ enumerated["Mth"] = "once"
  /\ enumerated["T"] = "once"

---------------------------------------------------------------------------
\* C14: with one thread, the lazy initializer of a set runs at most once
\* over any sequence of __call__, __contains__, get_name, add and remove,
\* and every later call works on the set object and the names that the
\* first call installed.
C14_InitOnce ==
  threads = {"t1"} =>
     /\ inits <= 1
     /\ ~NeedsInit(fset) =>
          /\ fset.function_ids = Some(1)
          /\ (initval.isdict /\ tpc["t1"] # "set_names")
               => fset.function_names = Some(initval.names)
     /\ tpc["t1"] \in {"body", "removing"} => tcall["t1"].ref = 1

\* one thread has changed the set and then asked for a name, and the
\* initializer has run once
C14_Witness ==
  /\ threads = {"t1"}
  /\ inits = 1
  /\ heap[1] # KeysOf(initval)
  /\ tpc["t1"] = "idle"
  /\ tcall["t1"].name = "get_name"
  /\ tres["t1"].raised = "none"

\* C18: with one thread, get_name on any set, its initializer returning a
\* dict or a set, materializes the set and returns the name or the default
\* and raises nothing.
C18_GetNameNeverRaises ==
  \A t \in Threads :
    (threads = {"t1"} /\ tcall[t].name = "get_name") => tres[t].raised = "none"

\* C19: with two threads the initializer can run twice, and the thread
\* that assigns function_ids later replaces what the other installed: its
\* assignment puts in an unchanged result of the initializer, whatever was
\* installed and however it was changed since.
C19_LateInstallReplaces ==
  [][\A t \in Threads :
       SetIds(t) => /\ fset'.function_ids = Some(tcall[t].ref)
                    /\ heap'[tcall[t].ref] = KeysOf(initval)
                    /\ inits <= Cardinality(threads)]_vars

\* the initializer ran twice; the set object installed first was given k
\* and was then replaced by the other, which has no k
C19_Witness ==
  /\ initval = BuiltinValue
  /\ inits = 2
  /\ \/ fset.function_ids = Some(1) /\ "k" \in heap[2] /\ heap[1] = KeysOf(initval)
     \/ fset.function_ids = Some(2) /\ "k" \in heap[1] /\ heap[2] = KeysOf(initval)
  /\ \A t \in Threads : tpc[t] = "idle"
  /\ \E t \in Threads : tcall[t].name = "add" /\ tcall[t].idx = "k"

\* C20: on a set whose initializer returns a dict, a thread can find
\* function_ids assigned and function_names not: a get_name that fails on
\* the unset names ran while another thread stood between the two
\* assignments of __call__.
C20_PartialStateRead ==
  [][\A t \in Threads :
       (initval.isdict /\ tcall[t].name = "get_name" /\ Body(t)
          /\ tres'[t].raised = "AttributeError")
         => \E u \in threads \ {t} :
              /\ tpc[u] = "set_names"
              /\ ~IsNone(fset.function_ids)
              /\ IsNone(fset.function_names)]_vars

\* t1 has assigned function_ids and not function_names, and the get_name
\* of t2 has raised
C20_Witness ==
  /\ initval.isdict
  /\ tpc["t1"] = "set_names"
  /\ IsNone(fset.function_names)
  /\ inits = 1
  /\ tpc["t2"] = "idle"
  /\ tcall["t2"].name = "get_name"
  /\ tres["t2"].raised = "AttributeError"

---------------------------------------------------------------------------
DisallowedIdsAfter == Get(disallowed'.function_ids)

\* the elements before position k of a sequence
Before(items, k) == {items[i] : i \in 1..(k - 1)}

\* C21: the sequence forms of allow and disallow are not atomic.  When such
\* a call raises, there is a position k whose element is the one that
\* fails; the override has been applied to every element before k and is
\* kept, and the membership of every identity that is not among them, the
\* elements after k included, is as it was before the call.
\* (Only Apply gives ret a new value, the call it has just handled.)
C21_NotAtomic ==
  [][(~IsNone(ret') /\ Get(ret').raised # "none" /\ ret' # ret
        /\ Get(ret').call.op \in {"allow", "disallow"}
        /\ Get(ret').call.arg.shape \in {"list", "tuple"})
       => LET c == Get(ret').call IN
          \E k \in DOMAIN c.arg.items :
              LET items == c.arg.items
                  x == items[k] IN
              /\ \A y \in Before(items, k) : callable(y)
              /\ \/ ~callable(x) /\ Get(ret').raised = "AssertionError"
                 \/ /\ c.op = "disallow"
                    /\ Get(ret').raised = "IncorrectUsage"
                    /\ x \in Before(items, k) \/ ~is_allowed(x)
              /\ forbidden' = forbidden
              /\ IF k = 1 THEN allowed' = allowed /\ disallowed' = disallowed
                 ELSE /\ allowed'.function_names = allowed.function_names
                      /\ \A y \in Before(items, k) :
                           /\ y \in AllowedIdsAfter <=> c.op = "allow"
                           /\ y \in DisallowedIdsAfter <=> c.op = "disallow"
                      /\ \A y \in Ids \ Before(items, k) :
                           /\ y \in AllowedIdsAfter <=> y \in AllowedIds
                           /\ y \in DisallowedIdsAfter <=> y \in DisallowedIds]_vars

\* disallow_in_graph([f, u]) raised at u, which is in no set, and f, the
\* element before it, is out of the Allowed set and in the Disallowed set
C21_Witness ==
  /\ ret = Some([call |-> ApiCall("disallow", TRUE, [shape |-> "list", items |-> <<"f", "u">>]),
                 raised |-> "IncorrectUsage", value |-> None])
  /\ "f" \in DOMAIN Get(allowed.function_names)
  /\ "f" \notin AllowedIds
  /\ "f" \in DisallowedIds
  /\ "u" \notin AllowedIds
  /\ "u" \notin DisallowedIds

====
